---- MODULE Spec2Model ----
\* Microlearning API (src/main.py, src/schemas.py): the topic store, the
\* self-test scoring handler and the attempt records it persists.
\*
\* Python values are modelled as tagged records [t, v]: None is [t |-> "none"],
\* an int n is [t |-> "int", v |-> n], a list is [t |-> "list", v |-> <<...>>].
\* A stored document is a TLA+ record whose DOMAIN is the set of keys the
\* document carries, so dict.get(key, default) is Get(d, key, default).
\* A float score is modelled exactly, in hundredths (50.0 is 5000).
EXTENDS Integers, Sequences, FiniteSets, TLC

VARIABLES topic, selftestattempt, nextOid, req, last

vars == <<topic, selftestattempt, nextOid, req, last>>

\* ------------------------------------------------------------------ bounds
MaxReqs == 2
MaxTopics == 2
MaxSteps == 2
MaxQuestions == 2
MaxAnswers == 2

\* ------------------------------------------------------------ Python values
None == [t |-> "none", v |-> 0]
PyInt(n) == [t |-> "int", v |-> n]
NoneList == [t |-> "none", v |-> <<>>]
PyList(s) == [t |-> "list", v |-> s]

Get(d, key, default) == IF key \in DOMAIN d THEN d[key] ELSE default

RECURSIVE SeqsUpTo(_, _)
SeqsUpTo(S, n) ==
    IF n = 0 THEN {<<>>}
    ELSE LET shorter == SeqsUpTo(S, n - 1)
         IN  shorter \cup {Append(s, x) : s \in {t \in shorter : Len(t) = n - 1}, x \in S}

\* ---------------------------------------------------------------- ObjectId
\* An ObjectId is 12 bytes; its string form is 24 hex digits.
OidBytes == 12
HexDigits == <<"0", "1", "2", "3", "4", "5", "6", "7",
               "8", "9", "a", "b", "c", "d", "e", "f">>
UpperDigits == <<"0", "1", "2", "3", "4", "5", "6", "7",
                 "8", "9", "A", "B", "C", "D", "E", "F">>

HexValOf ==
    [c \in {HexDigits[i] : i \in 1..16} \cup {UpperDigits[i] : i \in 1..16} |->
        (CHOOSE i \in 1..16 : HexDigits[i] = c \/ UpperDigits[i] = c) - 1]
IsHex(c) == c \in DOMAIN HexValOf
HexVal(c) == HexValOf[c]

\* ObjectId(id_str) succeeds exactly on 24 hex digits, of either case.
ValidId(s) == Len(s) = 2 * OidBytes /\ \A i \in 1..Len(s) : IsHex(s[i])

ParseOid(s) == [i \in 1..OidBytes |-> 16 * HexVal(s[2 * i - 1]) + HexVal(s[2 * i])]
OidStr(o) == [i \in 1..(2 * OidBytes) |->
                 IF i % 2 = 1 THEN HexDigits[(o[(i + 1) \div 2] \div 16) + 1]
                 ELSE HexDigits[(o[i \div 2] % 16) + 1]]

\* The n-th id the store hands out: a fixed prefix and a counter byte.
NewOid(n) == [i \in 1..OidBytes |-> IF i = OidBytes THEN n ELSE 171]

Upper(s) == [i \in 1..Len(s) |->
               IF \E k \in 1..16 : HexDigits[k] = s[i]
               THEN UpperDigits[CHOOSE k \in 1..16 : HexDigits[k] = s[i]]
               ELSE s[i]]

\* The id strings a client sends: the ids of the first two documents, one of
\* them in upper case, a 24-character string that is not hex, a short hex
\* string and the empty string.
IdStrings ==
    { OidStr(NewOid(0)), Upper(OidStr(NewOid(0))), OidStr(NewOid(1)),
      [i \in 1..(2 * OidBytes) |-> IF i = 5 THEN "g" ELSE "a"],
      [i \in 1..(2 * OidBytes - 1) |-> "a"],
      <<>> }

\* ------------------------------------------------------------- data model
\* schemas.QuizQuestion, as model_dump() stores it.
QuizQuestion(text, ci, level) ==
    [question |-> text, correct_index |-> PyInt(ci), hots_level |-> level,
     explanation |-> None]

\* schemas.Step: quiz_questions is None or a list.
Step(type, qq) == [type |-> type, title |-> "s", quiz_questions |-> qq]

\* schemas.Topic
Topic(title, tags, steps) ==
    [title |-> title, description |-> "d", tags |-> tags,
     estimated_minutes |-> 10, steps |-> steps]

\* The questions a client can create (correct_index is required and >= 0).
ValidQuestions ==
    { QuizQuestion("q1", 1, "apply"), QuizQuestion("q2", 0, "analyze") }

\* The question documents the store can hold: the created ones, and one
\* written by another client of the store that carries only its text.
StoredQuestions == ValidQuestions \cup { [question |-> "q3"] }

StepTypes == {"quiz", "theory"}

\* The sequences over S of length exactly n.
RECURSIVE SeqsOfLen(_, _)
SeqsOfLen(S, n) ==
    IF n = 0 THEN {<<>>}
    ELSE {Append(s, x) : s \in SeqsOfLen(S, n - 1), x \in S}

\* The step documents the store can hold that carry k questions:
\* quiz_questions a list, and for k = 0 also null or absent.
StoredSteps(k) ==
    { Step(ty, PyList(qs)) : ty \in StepTypes, qs \in SeqsOfLen(StoredQuestions, k) }
    \cup (IF k > 0 THEN {}
          ELSE { Step(ty, NoneList) : ty \in StepTypes }
               \cup { [type |-> ty, title |-> "s"] : ty \in StepTypes })

\* The sequences of at most n stored steps that carry at most b questions.
RECURSIVE StoredStepSeqs(_, _)
StoredStepSeqs(n, b) ==
    IF n = 0 THEN {<<>>}
    ELSE {<<>>} \cup
         UNION { { <<st>> \o rest : st \in StoredSteps(k),
                                    rest \in StoredStepSeqs(n - 1, b - k) } : k \in 0..b }

\* ------------------------------------------------------- quiz extraction
\* step.get("quiz_questions", []) or []
StepQuestions(step) ==
    LET qq == Get(step, "quiz_questions", PyList(<<>>))
    IN  IF qq.t = "list" THEN qq.v ELSE <<>>

\* step.get("type") == "quiz" (an absent type reads as None, which is not "quiz")
\* (variant: any step that carries questions counts as a quiz step)
IsQuizAnyStep(step) == StepQuestions(step) # <<>>
IsQuiz(step) == Get(step, "type", "") = "quiz"

RECURSIVE Flatten(_)
Flatten(steps) ==
    IF steps = <<>> THEN <<>>
    ELSE (IF IsQuiz(Head(steps)) THEN StepQuestions(Head(steps)) ELSE <<>>)
         \o Flatten(Tail(steps))

\* main.py 122-127: questions in order from steps with type 'quiz'
Extract(doc) == Flatten(Get(doc, "steps", <<>>))

\* The topic documents the store can hold before the service starts: every
\* sequence of at most MaxSteps stored steps with at most MaxQuestions
\* questions in all, and a document without steps.
StoredTopics ==
    { Topic("t", <<>>, ss) : ss \in StoredStepSeqs(MaxSteps, MaxQuestions) }
    \cup { [title |-> "t"] }

\* ---------------------------------------------------------------- scoring
\* payload.answers[i] if i < len(payload.answers) else None   (k = i + 1)
Chosen(answers, k) == IF k <= Len(answers) THEN PyInt(answers[k]) ELSE None

\* chosen == q.get("correct_index")
IsCorrect(chosen, q) == chosen = Get(q, "correct_index", None)

\* main.py 140-147
Detail(q, chosen) ==
    [question |-> q.question,
     chosen |-> chosen,
     correct_index |-> Get(q, "correct_index", None),
     is_correct |-> IsCorrect(chosen, q),
     hots_level |-> Get(q, "hots_level", "understand"),
     explanation |-> Get(q, "explanation", None)]

\* (variant: one detail record per submitted answer)
DetailedPerAnswer(questions, answers) ==
    [k \in 1..Len(answers) |->
        Detail(questions[IF k <= Len(questions) THEN k ELSE 1], Chosen(answers, k))]
Detailed(questions, answers) ==
    [k \in 1..Len(questions) |-> Detail(questions[k], Chosen(answers, k))]

Correct(detailed) == Cardinality({k \in 1..Len(detailed) : detailed[k].is_correct})

\* round((correct / total) * 100, 2), in hundredths; a tie rounds to even.
\* (variant: integer division)
ScoreTruncated(correct, total) == (correct \div total) * 10000
Score(correct, total) ==
    LET x == correct * 10000
        q == x \div total
        r == x % total
    IN  IF 2 * r < total THEN q
        ELSE IF 2 * r > total THEN q + 1
        ELSE q + (q % 2)

\* ------------------------------------------------------------------ state
\* topic, selftestattempt: the two collections, each a function from _id to
\*   the stored document.
\* nextOid: the number of ids the store has handed out.
\* req: the submit_selftest requests in flight, one record per worker thread.
\* last: the outcome of the latest create_topic / seed / list_topics /
\*   get_topic call (each is one store access).
Req == 1..MaxReqs

NoDoc == [missing |-> TRUE]
NoResp == [status |-> 0, detail |-> "", attempt_id |-> <<>>, score |-> 0,
           correct |-> 0, total |-> 0, details |-> <<>>]
IdleReq == [pc |-> "idle", topic_id |-> <<>>, answers |-> <<>>, oid |-> <<>>,
            snap |-> NoDoc, finds |-> 0, writes |-> 0, resp |-> NoResp]
NoCall == [op |-> "", arg |-> <<>>, status |-> 0, detail |-> "", id |-> <<>>,
           finds |-> 0, writes |-> 0, result |-> {}]

Error(code, text) == [NoResp EXCEPT !.status = code, !.detail = text]

\* database.create_document: insert the document under a fresh _id.
Insert(coll, doc) == coll @@ (NewOid(nextOid) :> doc)

\* ------------------------------------------------------- create_topic, seed
QuizTopic ==
    Topic("quiz", <<"python">>,
          << Step("theory", NoneList),
             Step("quiz", PyList(<< QuizQuestion("q1", 1, "apply"),
                                    QuizQuestion("q2", 2, "analyze") >>)) >>)
PlainTopic ==
    Topic("plain", <<>>,
          << Step("theory", PyList(<< QuizQuestion("q1", 0, "apply") >>)),
             Step("quiz", NoneList) >>)
LongTopic ==
    Topic("long", <<"python">>,
          << Step("quiz", PyList(<< QuizQuestion("q1", 1, "apply") >>)),
             Step("case", NoneList),
             Step("quiz", PyList(<< QuizQuestion("q2", 2, "analyze"),
                                    QuizQuestion("q3", 0, "understand") >>)) >>)

\* The bodies clients post to /api/topics.
TopicInputs == { QuizTopic, PlainTopic, LongTopic }

SeedSample ==
    Topic("Dasar Pemrograman Python", <<"programming", "python", "beginner">>,
          << Step("theory", NoneList),
             Step("case", NoneList),
             Step("quiz", PyList(<< QuizQuestion("Apa output", 1, "apply"),
                                    QuizQuestion("Manakah", 2, "analyze") >>)),
             Step("selftest", NoneList) >>)

StoreTopic(doc) == Insert(topic, doc)

\* (variant: the new document also replaces the stored ones)
CreateTopicReplacing(payload) ==
    /\ Cardinality(DOMAIN topic) < MaxTopics
    /\ topic' = IF DOMAIN topic = {} THEN StoreTopic(payload)
                ELSE [o \in DOMAIN topic |-> payload] @@ StoreTopic(payload)
    /\ nextOid' = nextOid + 1
    /\ last' = [NoCall EXCEPT !.op = "create_topic", !.status = 200,
                              !.id = OidStr(NewOid(nextOid)), !.writes = 1]
    /\ UNCHANGED <<selftestattempt, req>>
CreateTopic(payload) ==
    /\ Cardinality(DOMAIN topic) < MaxTopics
    /\ topic' = StoreTopic(payload)
    /\ nextOid' = nextOid + 1
    /\ last' = [NoCall EXCEPT !.op = "create_topic", !.status = 200,
                              !.id = OidStr(NewOid(nextOid)), !.writes = 1]
    /\ UNCHANGED <<selftestattempt, req>>

Seed ==
    /\ Cardinality(DOMAIN topic) < MaxTopics
    /\ topic' = StoreTopic(SeedSample)
    /\ nextOid' = nextOid + 1
    /\ last' = [NoCall EXCEPT !.op = "seed", !.status = 200,
                              !.id = OidStr(NewOid(nextOid)), !.writes = 1]
    /\ UNCHANGED <<selftestattempt, req>>

\* ------------------------------------------------- list_topics, get_topic
Tags == {"", "python"}

Summary(o) ==
    [id |-> OidStr(o),
     title |-> Get(topic[o], "title", ""),
     tags |-> Get(topic[o], "tags", <<>>),
     steps_count |-> Len(Get(topic[o], "steps", <<>>))]

HasTag(doc, tag) == \E i \in 1..Len(Get(doc, "tags", <<>>)) : doc.tags[i] = tag

ListTopics(tag) ==
    /\ last' = [NoCall EXCEPT
                  !.op = "list_topics", !.arg = <<tag>>, !.status = 200, !.finds = 1,
                  !.result = { Summary(o) : o \in { x \in DOMAIN topic :
                                                     tag = "" \/ HasTag(topic[x], tag) } }]
    /\ UNCHANGED <<topic, selftestattempt, nextOid, req>>

\* to_obj_id, then find_one: the id is parsed before the store is asked.
\* (variant: the store is asked before the id is checked)
GetTopicFindFirst(s) ==
    [NoCall EXCEPT !.op = "get_topic", !.arg = s, !.finds = 1,
                   !.status = IF ValidId(s) THEN 404 ELSE 400,
                   !.detail = IF ValidId(s) THEN "Topic not found" ELSE "Invalid id"]
GetTopicCall(s) ==
    LET call == [NoCall EXCEPT !.op = "get_topic", !.arg = s]
    IN  IF ~ValidId(s)
        THEN [call EXCEPT !.status = 400, !.detail = "Invalid id"]
        ELSE IF ParseOid(s) \notin DOMAIN topic
        THEN [call EXCEPT !.status = 404, !.detail = "Topic not found", !.finds = 1]
        ELSE [call EXCEPT !.status = 200, !.finds = 1, !.id = OidStr(ParseOid(s)),
                          !.result = {topic[ParseOid(s)]}]

GetTopic(s) ==
    /\ last' = GetTopicCall(s)
    /\ UNCHANGED <<topic, selftestattempt, nextOid, req>>

\* ---------------------------------------------------------- submit_selftest
AnswerValues == {0, 1}
AnswerLists == SeqsUpTo(AnswerValues, MaxAnswers)

\* main.py 118: to_obj_id(payload.topic_id) is evaluated before find_one runs.
SubmitParse(r, tid, answers) ==
    IF ValidId(tid)
    THEN [req[r] EXCEPT !.pc = "find", !.topic_id = tid, !.answers = answers,
                        !.oid = ParseOid(tid)]
    ELSE [req[r] EXCEPT !.pc = "done", !.topic_id = tid, !.answers = answers,
                        !.resp = Error(400, "Invalid id")]

SubmitBegin(r, tid, answers) ==
    /\ req[r].pc = "idle"
    /\ req' = [req EXCEPT ![r] = SubmitParse(r, tid, answers)]
    /\ UNCHANGED <<topic, selftestattempt, nextOid, last>>

\* main.py 118-120: find_one, 404 when there is no such topic.
\* (variant: the fetched topic is kept in a module-level variable that the
\* requests being scored share)
SubmitFindShared(r) ==
    /\ req[r].pc = "find"
    /\ req' = [q \in Req |->
                 IF q = r
                 THEN IF req[r].oid \in DOMAIN topic
                      THEN [req[r] EXCEPT !.pc = "score", !.finds = @ + 1,
                                          !.snap = topic[req[r].oid]]
                      ELSE [req[r] EXCEPT !.pc = "done", !.finds = @ + 1,
                                          !.resp = Error(404, "Topic not found")]
                 ELSE IF req[q].pc = "score" /\ req[r].oid \in DOMAIN topic
                      THEN [req[q] EXCEPT !.snap = topic[req[r].oid]]
                      ELSE req[q]]
    /\ UNCHANGED <<topic, selftestattempt, nextOid, last>>
SubmitFind(r) ==
    /\ req[r].pc = "find"
    /\ req' = [req EXCEPT ![r] =
                 IF req[r].oid \in DOMAIN topic
                 THEN [@ EXCEPT !.pc = "score", !.finds = @ + 1, !.snap = topic[req[r].oid]]
                 ELSE [@ EXCEPT !.pc = "done", !.finds = @ + 1,
                                !.resp = Error(404, "Topic not found")]]
    /\ UNCHANGED <<topic, selftestattempt, nextOid, last>>

\* main.py 132-159: the response of a scored submission.
Result(doc, answers, id) ==
    LET questions == Extract(doc)
        detailed == Detailed(questions, answers)
    IN  [status |-> 200, detail |-> "", attempt_id |-> id,
         score |-> Score(Correct(detailed), Len(questions)),
         correct |-> Correct(detailed), total |-> Len(questions),
         details |-> detailed]

\* schemas.SelftestAttempt, as stored.
\* (variant: total_questions takes the correct count)
AttemptCountingCorrect(tid, resp) ==
    [topic_id |-> tid, score |-> resp.score, total_questions |-> resp.correct,
     answers |-> resp.details, user_id |-> None]
Attempt(tid, resp) ==
    [topic_id |-> tid, score |-> resp.score, total_questions |-> resp.total,
     answers |-> resp.details, user_id |-> None]

\* main.py 122-159: extract, reject an empty list, score, persist, respond.
\* (variant: an empty question list scores 0 instead of being rejected)
SubmitScoreZeroForEmpty(r) ==
    /\ req[r].pc = "score"
    /\ LET resp == IF Extract(req[r].snap) = <<>>
                   THEN [NoResp EXCEPT !.status = 200,
                                       !.attempt_id = OidStr(NewOid(nextOid))]
                   ELSE Result(req[r].snap, req[r].answers, OidStr(NewOid(nextOid)))
       IN  /\ selftestattempt' = Insert(selftestattempt, Attempt(req[r].topic_id, resp))
           /\ nextOid' = nextOid + 1
           /\ req' = [req EXCEPT ![r] = [@ EXCEPT !.pc = "done", !.writes = @ + 1,
                                                  !.resp = resp]]
    /\ UNCHANGED <<topic, last>>
SubmitScore(r) ==
    /\ req[r].pc = "score"
    /\ IF Extract(req[r].snap) = <<>>
       THEN /\ req' = [req EXCEPT ![r] =
                         [@ EXCEPT !.pc = "done",
                                   !.resp = Error(400, "No quiz questions in this topic")]]
            /\ UNCHANGED <<selftestattempt, nextOid>>
       ELSE LET resp == Result(req[r].snap, req[r].answers, OidStr(NewOid(nextOid)))
            IN  /\ selftestattempt' = Insert(selftestattempt, Attempt(req[r].topic_id, resp))
                /\ nextOid' = nextOid + 1
                /\ req' = [req EXCEPT ![r] = [@ EXCEPT !.pc = "done", !.writes = @ + 1,
                                                       !.resp = resp]]
    /\ UNCHANGED <<topic, last>>

\* ---------------------------------------------------------- specifications
\* The service starts on an empty store; clients create topics and submit
\* concurrently.
Init ==
    /\ topic = << >>
    /\ selftestattempt = << >>
    /\ nextOid = 0
    /\ req = [r \in Req |-> IdleReq]
    /\ last = NoCall

SubmitInputs == { <<1, 2>>, <<0, 2>>, <<1>> }

\* One client at a time: every endpoint, one submission.
Next ==
    \/ \E p \in TopicInputs : CreateTopic(p)
    \/ Seed
    \/ \E tag \in Tags : ListTopics(tag)
    \/ \E s \in IdStrings : GetTopic(s)
    \/ \E s \in IdStrings, a \in SubmitInputs : SubmitBegin(1, s, a)
    \/ SubmitFind(1)
    \/ SubmitScore(1)

Spec == Init /\ [][Next]_vars

\* Concurrent clients: topic creations interleaved with submissions, each
\* submission a worker thread of its own. The threads are interchangeable, so
\* thread r + 1 takes a request only after thread r has taken one.
ConcIds == { OidStr(NewOid(0)), OidStr(NewOid(1)) }
ConcAnswers == { <<1, 2>>, <<1>> }

ConcTopics == { QuizTopic, PlainTopic }

NextConc ==
    \/ \E p \in ConcTopics : CreateTopic(p)
    \/ \E r \in Req, s \in ConcIds, a \in ConcAnswers :
          /\ \A q \in 1..(r - 1) : req[q].pc # "idle"
          /\ SubmitBegin(r, s, a)
    \/ \E r \in Req : SubmitFind(r)
    \/ \E r \in Req : SubmitScore(r)

SpecConc == Init /\ [][NextConc]_vars

\* The service starts on a store that already holds one topic document, of
\* any stored shape; one client submits answers against it.
InitStored ==
    /\ \E d \in StoredTopics : topic = (NewOid(0) :> d)
    /\ selftestattempt = << >>
    /\ nextOid = 1
    /\ req = [r \in Req |-> IdleReq]
    /\ last = NoCall

StoredIds == { OidStr(NewOid(0)) }

NextStored ==
    \/ \E s \in StoredIds, a \in AnswerLists : SubmitBegin(1, s, a)
    \/ SubmitFind(1)
    \/ SubmitScore(1)

SpecStored == InitStored /\ [][NextStored]_vars

\* ------------------------------------------------------------- properties
\* What the claims say, stated without the operators of the handler.

\* A 24-character string of hex digits.
WellFormedId(s) ==
    /\ Len(s) = 24
    /\ \A i \in 1..Len(s) :
          s[i] \in {"0", "1", "2", "3", "4", "5", "6", "7", "8", "9",
                    "a", "b", "c", "d", "e", "f", "A", "B", "C", "D", "E", "F"}

StepsOf(doc) == IF "steps" \in DOMAIN doc THEN doc.steps ELSE <<>>

\* The questions a step contributes: those of a quiz step whose
\* quiz_questions is a list, none otherwise.
QuizList(step) ==
    IF /\ "type" \in DOMAIN step
       /\ step.type = "quiz"
       /\ "quiz_questions" \in DOMAIN step
       /\ step.quiz_questions.t = "list"
    THEN step.quiz_questions.v
    ELSE <<>>

\* The number of questions the steps before step i contribute.
Offset(doc, i) ==
    Cardinality({ p \in (1..(i - 1)) \X (1..MaxQuestions) :
                    p[2] <= Len(QuizList(StepsOf(doc)[p[1]])) })

ExpectedTotal(doc) == Offset(doc, Len(StepsOf(doc)) + 1)

Done(r) == req[r].pc = "done"
Scored(r) == Done(r) /\ req[r].resp.status = 200
Fetched(r) == Done(r) /\ req[r].finds = 1 /\ req[r].resp.status # 404

\* C1: the list a submission scores is the concatenation, in step order and
\* then question order, of the question lists of the quiz steps; other steps,
\* and quiz steps whose list is absent, null or empty, contribute nothing; its
\* length is the sum of the quiz steps' question counts.
C1_ExtractionOrder ==
    \A r \in Req :
        Fetched(r) =>
            LET doc == topic[req[r].oid]
                resp == req[r].resp
                steps == StepsOf(doc)
            IN  /\ (ExpectedTotal(doc) = 0) = (resp.status = 400)
                /\ (ExpectedTotal(doc) > 0) = (resp.status = 200)
                /\ resp.status = 200 =>
                     /\ resp.total = ExpectedTotal(doc)
                     /\ Len(resp.details) = ExpectedTotal(doc)
                     /\ \A i \in 1..Len(steps) :
                          \A j \in 1..Len(QuizList(steps[i])) :
                             LET q == QuizList(steps[i])[j]
                                 d == resp.details[Offset(doc, i) + j]
                             IN  /\ d.question = q.question
                                 /\ d.correct_index =
                                      (IF "correct_index" \in DOMAIN q
                                       THEN q.correct_index ELSE None)

\* Two quiz steps with different questions, scored; and a step of another
\* type carrying questions is what the bounds also reach (see C6_Witness).
C1_Witness ==
    \E r \in Req :
        /\ Scored(r)
        /\ LET steps == StepsOf(topic[req[r].oid])
           IN  /\ Len(steps) = 2
               /\ steps[1].type = "quiz" /\ steps[2].type = "quiz"
               /\ Len(QuizList(steps[1])) = 1 /\ Len(QuizList(steps[2])) = 1
               /\ QuizList(steps[1])[1].question # QuizList(steps[2])[1].question
        /\ req[r].resp.total = 2

\* C2: is_correct is true exactly when an answer is present at the position
\* and equals the question's correct_index as an integer; correct counts the
\* detail records marked correct.
C2_CorrectIffAnsweredAndEqual ==
    \A r \in Req :
        Scored(r) =>
            LET resp == req[r].resp
                answers == req[r].answers
            IN  /\ \A k \in 1..Len(resp.details) :
                      resp.details[k].is_correct =
                          (/\ k <= Len(answers)
                           /\ resp.details[k].correct_index.t = "int"
                           /\ answers[k] = resp.details[k].correct_index.v)
                /\ resp.correct =
                      Cardinality({k \in 1..Len(resp.details) : resp.details[k].is_correct})

\* C3: a question past the end of the answers has chosen = None and is marked
\* incorrect, whatever the stored question document.
C3_MissingAnswerIncorrect ==
    \A r \in Req :
        Scored(r) =>
            \A k \in 1..Len(req[r].resp.details) :
                k > Len(req[r].answers) =>
                    /\ req[r].resp.details[k].chosen = None
                    /\ ~req[r].resp.details[k].is_correct

\* C5: answers past the last question are ignored: the response is the one
\* the answers cut to the first total entries get, and it has total detail
\* records.
C5_ExtraAnswersIgnored ==
    \A r \in Req :
        (Scored(r) /\ Len(req[r].answers) > req[r].resp.total) =>
            LET resp == req[r].resp
                cut == SubSeq(req[r].answers, 1, resp.total)
            IN  /\ Len(resp.details) = resp.total
                /\ Len(resp.details) < Len(req[r].answers)
                /\ resp = Result(topic[req[r].oid], cut, resp.attempt_id)
                /\ \A k \in 1..Len(resp.details) :
                      resp.details[k].chosen = PyInt(req[r].answers[k])

C5_Witness ==
    \E r \in Req :
        /\ Scored(r)
        /\ req[r].resp.total = 1
        /\ Len(req[r].answers) = 2
        /\ req[r].resp.correct = 1

\* C6: a topic that exists and yields no question is answered 400 "No quiz
\* questions in this topic" (not the 404 of a missing topic), with no score
\* computed and no attempt persisted.
C6_NoQuestionsRejected ==
    \A r \in Req :
        (/\ req[r].pc \in {"score", "done"}
         /\ req[r].oid \in DOMAIN topic
         /\ ExpectedTotal(topic[req[r].oid]) = 0) =>
            /\ req[r].writes = 0
            /\ selftestattempt = << >>
            /\ Done(r) => /\ req[r].resp.status = 400
                          /\ req[r].resp.detail = "No quiz questions in this topic"
                          /\ req[r].resp.score = 0
                          /\ req[r].resp.attempt_id = <<>>

\* A topic whose only questions sit in a step of another type, rejected.
C6_Witness ==
    \E r \in Req :
        /\ Done(r)
        /\ req[r].resp.status = 400
        /\ req[r].resp.detail = "No quiz questions in this topic"
        /\ \E i \in 1..Len(StepsOf(topic[req[r].oid])) :
              /\ topic[req[r].oid].steps[i].type = "theory"
              /\ StepQuestions(topic[req[r].oid].steps[i]) # <<>>

\* C4: the score returned and persisted is 100 * correct / total rounded to
\* two decimals, total the number of extracted questions and correct the
\* number marked correct: 2 of 2 is 100.0, 1 of 2 is 50.0.
C4_ScoreFormula ==
    \A r \in Req :
        Scored(r) =>
            LET resp == req[r].resp
                t == ExpectedTotal(topic[req[r].oid])
                c == Cardinality({k \in 1..Len(resp.details) : resp.details[k].is_correct})
            IN  /\ t > 0
                /\ resp.total = t
                /\ resp.correct = c
                \* the nearest hundredth to 100 * c / t
                /\ 2 * (resp.score * t - 10000 * c) <= t
                /\ 2 * (10000 * c - resp.score * t) <= t
                /\ (c = t) => resp.score = 10000
                /\ (2 * c = t) => resp.score = 5000
                /\ (3 * c = t) => resp.score = 3333
                /\ (3 * c = 2 * t) => resp.score = 6667
                /\ selftestattempt[ParseOid(resp.attempt_id)].score = resp.score

\* 2 of 3: 66.67.
C4_Witness ==
    \E r \in Req :
        /\ Scored(r)
        /\ req[r].resp.total = 3
        /\ req[r].resp.correct = 2
        /\ req[r].resp.score = 6667

C8_IndependentSubmissions ==
    /\ \A r \in Req :
          Scored(r) =>
              LET resp == req[r].resp
              IN  /\ ExpectedTotal(topic[req[r].oid]) > 0
                  /\ resp = Result(topic[req[r].oid], req[r].answers, resp.attempt_id)
                  /\ ParseOid(resp.attempt_id) \in DOMAIN selftestattempt
                  /\ LET a == selftestattempt[ParseOid(resp.attempt_id)]
                     IN  /\ a.topic_id = req[r].topic_id
                         /\ a.score = resp.score
                         /\ a.total_questions = resp.total
                         /\ a.answers = resp.details
    /\ \A r1, r2 \in Req :
          (Scored(r1) /\ Scored(r2) /\ r1 # r2) =>
              req[r1].resp.attempt_id # req[r2].resp.attempt_id
    /\ Cardinality(DOMAIN selftestattempt) = Cardinality({r \in Req : Scored(r)})

\* Two submissions for different topics, overlapping in time, both scored.
C8_Witness ==
    \E r1, r2 \in Req :
        /\ Scored(r1) /\ req[r2].pc = "score"
        /\ req[r1].oid # req[r2].oid
        /\ req[r1].finds = 1 /\ req[r2].finds = 1
        /\ Cardinality(DOMAIN topic) = 2
        /\ Extract(req[r2].snap) # <<>>

\* C9: every persisted attempt has total_questions = len(answers) >= 1, a
\* score within 0..100, answer records that carry, in extraction order, the
\* text and correct_index of the questions of the topic its topic_id names,
\* and the score, total and details returned under its id.
C9_AttemptRecords ==
    \A o \in DOMAIN selftestattempt :
        LET a == selftestattempt[o]
        IN  /\ a.total_questions = Len(a.answers)
            /\ a.total_questions >= 1
            /\ a.score >= 0 /\ a.score <= 10000
            /\ WellFormedId(a.topic_id)
            /\ ParseOid(a.topic_id) \in DOMAIN topic
            /\ LET doc == topic[ParseOid(a.topic_id)]
                   steps == StepsOf(doc)
               IN  /\ Len(a.answers) = ExpectedTotal(doc)
                   /\ \A i \in 1..Len(steps) :
                        \A j \in 1..Len(QuizList(steps[i])) :
                           LET q == QuizList(steps[i])[j]
                               d == a.answers[Offset(doc, i) + j]
                           IN  /\ d.question = q.question
                               /\ d.correct_index = q.correct_index
            /\ \E r \in Req :
                  /\ Scored(r)
                  /\ req[r].resp.attempt_id = OidStr(o)
                  /\ req[r].resp.score = a.score
                  /\ req[r].resp.total = a.total_questions
                  /\ req[r].resp.details = a.answers

\* Two attempts on record, one of them scored 1 of 2.
C9_Witness ==
    /\ Cardinality(DOMAIN selftestattempt) = 2
    /\ \E o \in DOMAIN selftestattempt :
          /\ selftestattempt[o].total_questions = 2
          /\ selftestattempt[o].score = 5000

\* C10: the collections only grow, and each operation touches only what it
\* creates: a scored submission adds one attempt and leaves the topics alone;
\* a failed submission, list_topics and get_topic change neither collection;
\* create_topic and seed add one topic and leave the attempts alone; so a
\* stored topic always extracts to the same list.
C10_Frame ==
    [][ /\ \A o \in DOMAIN topic : o \in DOMAIN topic' /\ topic'[o] = topic[o]
        /\ \A o \in DOMAIN selftestattempt :
              o \in DOMAIN selftestattempt' /\ selftestattempt'[o] = selftestattempt[o]
        /\ \A o \in DOMAIN topic : Extract(topic'[o]) = Extract(topic[o])
        /\ \A r \in Req :
              /\ (req[r].pc # "done" /\ req'[r].pc = "done" /\ req'[r].resp.status = 200) =>
                    /\ topic' = topic
                    /\ Cardinality(DOMAIN selftestattempt') =
                          Cardinality(DOMAIN selftestattempt) + 1
              /\ (req'[r] # req[r] /\ req'[r].resp.status # 200) =>
                    /\ topic' = topic
                    /\ selftestattempt' = selftestattempt
        /\ (req' = req /\ last'.op \in {"list_topics", "get_topic"}) =>
              /\ topic' = topic
              /\ selftestattempt' = selftestattempt
        /\ (req' = req /\ last'.op \in {"create_topic", "seed"} /\ last'.id # last.id) =>
              /\ Cardinality(DOMAIN topic') = Cardinality(DOMAIN topic) + 1
              /\ selftestattempt' = selftestattempt
      ]_vars

\* A store with two topics and an attempt, read by get_topic.
C10_Witness ==
    /\ Cardinality(DOMAIN topic) = 2
    /\ Cardinality(DOMAIN selftestattempt) = 1
    /\ last.op = "get_topic"
    /\ last.status = 200
    /\ \E r \in Req : Scored(r)

====
